---- MODULE Spec2Model ----
(***************************************************************************)
(* A model of agent/app.py: the /ask request handler, the model-output     *)
(* recoverer _ollama_generate_json, the ESQL normalizer and the two store  *)
(* executors.  Text is modelled character by character: a text is a        *)
(* sequence of one-character strings, and json.loads, str.strip and the    *)
(* regular expressions of the source are operators over such sequences.    *)
(***************************************************************************)
EXTENDS Integers, Sequences, FiniteSets, TLC

(***************************************************************************)
(* Characters and texts                                                    *)
(***************************************************************************)

\* Whitespace of str.strip(), of the regex class \s and of the JSON scanner,
\* restricted to the three whitespace characters the inputs use.
WS == {" ", "\n", "\t"}

Digits == <<"0", "1", "2", "3", "4", "5", "6", "7", "8", "9">>

LowerLetters ==
    <<"a", "b", "c", "d", "e", "f", "g", "h", "i", "j", "k", "l", "m",
      "n", "o", "p", "q", "r", "s", "t", "u", "v", "w", "x", "y", "z">>

UpperLetters ==
    <<"A", "B", "C", "D", "E", "F", "G", "H", "I", "J", "K", "L", "M",
      "N", "O", "P", "Q", "R", "S", "T", "U", "V", "W", "X", "Y", "Z">>

Range(f) == {f[i] : i \in DOMAIN f}

IsDigit(c) == c \in Range(Digits)

DigitVal(c) == (CHOOSE i \in 1..10 : Digits[i] = c) - 1

\* The regex class \w: letters, digits and the underscore.
IsWordChar(c) ==
    c \in Range(LowerLetters) \cup Range(UpperLetters) \cup Range(Digits) \cup {"_"}

\* str.lower() on one character.
LowerChar(c) ==
    IF c \in Range(UpperLetters)
    THEN LowerLetters[CHOOSE i \in 1..26 : UpperLetters[i] = c]
    ELSE c

RECURSIVE Lower(_)
Lower(s) == IF s = <<>> THEN <<>> ELSE <<LowerChar(Head(s))>> \o Lower(Tail(s))

SetMin(S) == CHOOSE x \in S : \A y \in S : x <= y

SetMax(S) == CHOOSE x \in S : \A y \in S : x >= y

\* str.strip(): the text without its leading and trailing whitespace.
Strip(s) ==
    LET keep == {i \in 1..Len(s) : s[i] \notin WS}
    IN  IF keep = {} THEN <<>> ELSE SubSeq(s, SetMin(keep), SetMax(keep))

\* Whether text p occurs in s starting at position i.
OccursAt(s, i, p) ==
    /\ i >= 1
    /\ i + Len(p) - 1 <= Len(s)
    /\ SubSeq(s, i, i + Len(p) - 1) = p

\* OccursAt without regard to letter case (re.IGNORECASE on a literal).
OccursAtNoCase(s, i, p) ==
    /\ i >= 1
    /\ i + Len(p) - 1 <= Len(s)
    /\ Lower(SubSeq(s, i, i + Len(p) - 1)) = Lower(p)

\* str.find from position i: the first position >= i where p occurs, 0 if none.
FindFrom(s, i, p) ==
    LET at == {k \in i..Len(s) : OccursAt(s, k, p)}
    IN  IF at = {} THEN 0 ELSE SetMin(at)

\* The first position >= i that holds no whitespace (Len(s) + 1 if none):
\* where a greedy \s* ends.
SkipWS(s, i) ==
    LET stop == {k \in i..Len(s) : s[k] \notin WS}
    IN  IF stop = {} THEN Len(s) + 1 ELSE SetMin(stop)

\* The regex \b at position i (between s[i-1] and s[i]).
WordBoundary(s, i) ==
    LET before == i > 1 /\ i - 1 <= Len(s) /\ IsWordChar(s[i - 1])
        after  == i >= 1 /\ i <= Len(s) /\ IsWordChar(s[i])
    IN  before # after

RECURSIVE Concat(_)
Concat(ss) == IF ss = <<>> THEN <<>> ELSE Head(ss) \o Concat(Tail(ss))

(***************************************************************************)
(* JSON values.  Every value is a record of the same shape, told apart by  *)
(* its tag t: "null", "bool", "num", "str", "arr", "obj".  A number keeps  *)
(* its sign, its integer part and the digits of its fraction; an object is *)
(* the sequence of its <<key, value>> pairs in insertion order, one pair   *)
(* per key, as a Python dict.                                              *)
(***************************************************************************)

JBlank == [t |-> "null", b |-> FALSE, neg |-> FALSE, ip |-> 0, fr |-> <<>>,
           s |-> <<>>, arr |-> <<>>, kv |-> <<>>]

JNull == JBlank

JBool(x) == [JBlank EXCEPT !.t = "bool", !.b = x]

JNum(neg, ip, fr) == [JBlank EXCEPT !.t = "num", !.neg = neg, !.ip = ip, !.fr = fr]

JInt(n) == IF n < 0 THEN JNum(TRUE, 0 - n, <<>>) ELSE JNum(FALSE, n, <<>>)

JStr(x) == [JBlank EXCEPT !.t = "str", !.s = x]

JArr(x) == [JBlank EXCEPT !.t = "arr", !.arr = x]

JObj(x) == [JBlank EXCEPT !.t = "obj", !.kv = x]

IsMapping(v) == v.t = "obj"

IsStr(v) == v.t = "str"

HasKey(o, k) == \E i \in 1..Len(o.kv) : o.kv[i][1] = k

\* dict.get(k): the value stored under k, None (null) when the key is absent.
Get(o, k) ==
    IF HasKey(o, k)
    THEN o.kv[CHOOSE i \in 1..Len(o.kv) : o.kv[i][1] = k][2]
    ELSE JNull

\* d[k] = v: replaces the value of an existing key in place, else appends.
Put(o, k, v) ==
    IF HasKey(o, k)
    THEN JObj([i \in 1..Len(o.kv) |->
                 IF o.kv[i][1] = k THEN <<k, v>> ELSE o.kv[i]])
    ELSE JObj(Append(o.kv, <<k, v>>))

\* Python truthiness of a decoded JSON value (what  x or y  tests).
FracNonZero(fr) == \E i \in 1..Len(fr) : fr[i] # "0"

Truthy(v) ==
    CASE v.t = "null" -> FALSE
      [] v.t = "bool" -> v.b
      [] v.t = "num"  -> v.ip # 0 \/ FracNonZero(v.fr)
      [] v.t = "str"  -> v.s # <<>>
      [] v.t = "arr"  -> v.arr # <<>>
      [] v.t = "obj"  -> v.kv # <<>>

(***************************************************************************)
(* json.loads (Python's json.decoder and json.scanner), as it decodes the  *)
(* texts of the model: objects, arrays, strings with backslash escapes,    *)
(* integers and decimal fractions, true, false and null.  Exponents,       *)
(* \uXXXX escapes, NaN and Infinity occur in no input of the model and are *)
(* not decoded.  A scan result is [ok, v, p]: whether a value was decoded, *)
(* the value, and the position after it.                                   *)
(***************************************************************************)

ScanFail == [ok |-> FALSE, v |-> JNull, p |-> 0]

ScanOk(v, p) == [ok |-> TRUE, v |-> v, p |-> p]

\* Characters a strict JSON string may not hold unescaped (code < 0x20).
ControlChars == {"\n", "\t"}

\* json.decoder.BACKSLASH: the character an escape stands for.  \b, \f and
\* \r decode to characters written here as <b>, <f> and <r>.
IsEscape(c) == c \in {"\"", "\\", "/", "b", "f", "n", "r", "t"}

Unescape(c) ==
    CASE c = "n" -> "\n"
      [] c = "t" -> "\t"
      [] c = "b" -> "<b>"
      [] c = "f" -> "<f>"
      [] c = "r" -> "<r>"
      [] OTHER   -> c

\* py_scanstring: s[i] is the first character after the opening quote.
RECURSIVE ScanString(_, _, _)
ScanString(s, i, acc) ==
    IF i > Len(s) THEN ScanFail
    ELSE IF s[i] = "\"" THEN ScanOk(JStr(acc), i + 1)
    ELSE IF s[i] = "\\"
         THEN IF i + 1 > Len(s) \/ ~IsEscape(s[i + 1])
              THEN ScanFail
              ELSE ScanString(s, i + 2, Append(acc, Unescape(s[i + 1])))
    ELSE IF s[i] \in ControlChars THEN ScanFail
    ELSE ScanString(s, i + 1, Append(acc, s[i]))

\* The first position >= i that holds no digit: where \d* ends.
DigitsEnd(s, i) ==
    LET stop == {k \in i..Len(s) : ~IsDigit(s[k])}
    IN  IF stop = {} THEN Len(s) + 1 ELSE SetMin(stop)

RECURSIVE DigitsValue(_)
DigitsValue(ds) ==
    IF ds = <<>> THEN 0
    ELSE 10 * DigitsValue(SubSeq(ds, 1, Len(ds) - 1)) + DigitVal(ds[Len(ds)])

\* json.scanner.NUMBER_RE, (-?(?:0|[1-9]\d*))(\.\d+)?, matched at i.
ScanNumber(s, i) ==
    LET neg    == i <= Len(s) /\ s[i] = "-"
        j      == IF neg THEN i + 1 ELSE i
        e      == IF j <= Len(s) /\ s[j] = "0" THEN j + 1 ELSE DigitsEnd(s, j)
        fe     == IF e <= Len(s) /\ s[e] = "." THEN DigitsEnd(s, e + 1) ELSE e
        hasFr  == fe > e + 1
        ip     == DigitsValue(SubSeq(s, j, e - 1))
    IN  IF e <= j THEN ScanFail
        ELSE IF hasFr THEN ScanOk(JNum(neg, ip, SubSeq(s, e + 1, fe - 1)), fe)
        ELSE ScanOk(JNum(neg /\ ip # 0, ip, <<>>), e)

RECURSIVE ScanOnce(_, _), ScanMembers(_, _, _), ScanItems(_, _, _)

\* json.scanner.py_make_scanner._scan_once: one value starting at s[i].
ScanOnce(s, i) ==
    IF i > Len(s) THEN ScanFail
    ELSE CASE s[i] = "\"" -> ScanString(s, i + 1, <<>>)
           [] s[i] = "{" ->
                LET j == SkipWS(s, i + 1)
                IN  IF j <= Len(s) /\ s[j] = "}"
                    THEN ScanOk(JObj(<<>>), j + 1)
                    ELSE ScanMembers(s, j, JObj(<<>>))
           [] s[i] = "[" ->
                LET j == SkipWS(s, i + 1)
                IN  IF j <= Len(s) /\ s[j] = "]"
                    THEN ScanOk(JArr(<<>>), j + 1)
                    ELSE ScanItems(s, j, <<>>)
           [] OccursAt(s, i, <<"n", "u", "l", "l">>) -> ScanOk(JNull, i + 4)
           [] OccursAt(s, i, <<"t", "r", "u", "e">>) -> ScanOk(JBool(TRUE), i + 4)
           [] OccursAt(s, i, <<"f", "a", "l", "s", "e">>) -> ScanOk(JBool(FALSE), i + 5)
           [] OTHER -> ScanNumber(s, i)

\* json.decoder.JSONObject: the members of an object, s[j] being where a
\* key's opening quote must stand; o holds the pairs decoded so far.
ScanMembers(s, j, o) ==
    IF j > Len(s) \/ s[j] # "\"" THEN ScanFail
    ELSE LET k == ScanString(s, j + 1, <<>>)
         IN  IF ~k.ok THEN ScanFail
             ELSE LET c == SkipWS(s, k.p)
                  IN  IF c > Len(s) \/ s[c] # ":" THEN ScanFail
                      ELSE LET val == ScanOnce(s, SkipWS(s, c + 1))
                           IN  IF ~val.ok THEN ScanFail
                               ELSE LET d  == SkipWS(s, val.p)
                                        o2 == Put(o, k.v.s, val.v)
                                    IN  IF d > Len(s) THEN ScanFail
                                        ELSE IF s[d] = "}" THEN ScanOk(o2, d + 1)
                                        ELSE IF s[d] = ","
                                             THEN ScanMembers(s, SkipWS(s, d + 1), o2)
                                        ELSE ScanFail

\* json.decoder.JSONArray: the items of an array, s[j] being where the next
\* value must start; items holds the values decoded so far.
ScanItems(s, j, items) ==
    LET val == ScanOnce(s, j)
    IN  IF ~val.ok THEN ScanFail
        ELSE LET d  == SkipWS(s, val.p)
                 a2 == Append(items, val.v)
             IN  IF d > Len(s) THEN ScanFail
                 ELSE IF s[d] = "]" THEN ScanOk(JArr(a2), d + 1)
                 ELSE IF s[d] = "," THEN ScanItems(s, SkipWS(s, d + 1), a2)
                 ELSE ScanFail

\* json.loads(s): [ok, v]; ok is FALSE where json.JSONDecodeError is raised
\* (no value, or data after the value).
JsonLoads(s) ==
    LET r == ScanOnce(s, SkipWS(s, 1))
    IN  IF r.ok /\ SkipWS(s, r.p) = Len(s) + 1
        THEN [ok |-> TRUE, v |-> r.v]
        ELSE [ok |-> FALSE, v |-> JNull]

(***************************************************************************)
(* Process configuration (module level of app.py)                          *)
(***************************************************************************)

\* ES_INDEX, at its default "springboot-logs-*".
ES_INDEX == <<"s", "p", "r", "i", "n", "g", "b", "o", "o", "t", "-", "l", "o", "g", "s", "-", "*">>

(***************************************************************************)
(* The four recovery strategies of _ollama_generate_json, as functions of  *)
(* the aggregated text.  Each yields [ok, v]: whether the strategy returns *)
(* and the value it returns.                                               *)
(***************************************************************************)

NoValue == [ok |-> FALSE, v |-> JNull]

\* 1) Try direct JSON: json.loads(combined).
DirectParse(s) == JsonLoads(s)

\* The backquote character, which a TLA+ string cannot hold, is written <bq>.
BQ == "<bq>"

\* The code fence: three backquotes.
Fence == <<BQ, BQ, BQ>>

\* re.search(r"<fence>(?:json)?\s*([\s\S]*?)<fence>", combined, re.IGNORECASE):
\* [found, text], text being group 1.  The match starts at the first fence;
\* the optional tag and the whitespace are taken greedily, the interior
\* lazily up to the next fence.
FencedSearch(s) ==
    LET i == FindFrom(s, 1, Fence)
        a == i + 3
        b == IF OccursAtNoCase(s, a, <<"j", "s", "o", "n">>) THEN a + 4 ELSE a
        c == SkipWS(s, b)
        k == FindFrom(s, c, Fence)
    IN  IF i = 0 \/ k = 0
        THEN [found |-> FALSE, text |-> <<>>]
        ELSE [found |-> TRUE, text |-> SubSeq(s, c, k - 1)]

\* 2) Try fenced json block: json.loads(fenced.group(1).strip()).
FencedParse(s) ==
    LET m == FencedSearch(s)
    IN  IF m.found THEN JsonLoads(Strip(m.text)) ELSE NoValue

\* The loop of _extract_first_json_object from position i on, with the
\* loop's depth, in_str and esc: [found, text].
RECURSIVE BraceScan(_, _, _, _, _, _)
BraceScan(s, start, i, depth, in_str, esc) ==
    IF i > Len(s) THEN [found |-> FALSE, text |-> <<>>]
    ELSE IF in_str
         THEN IF esc THEN BraceScan(s, start, i + 1, depth, TRUE, FALSE)
              ELSE IF s[i] = "\\" THEN BraceScan(s, start, i + 1, depth, TRUE, TRUE)
              ELSE IF s[i] = "\"" THEN BraceScan(s, start, i + 1, depth, FALSE, FALSE)
              ELSE BraceScan(s, start, i + 1, depth, TRUE, FALSE)
    ELSE IF s[i] = "\"" THEN BraceScan(s, start, i + 1, depth, TRUE, esc)
    ELSE IF s[i] = "{" THEN BraceScan(s, start, i + 1, depth + 1, FALSE, esc)
    ELSE IF s[i] = "}"
         THEN IF depth - 1 = 0
              THEN [found |-> TRUE, text |-> SubSeq(s, start, i)]
              ELSE BraceScan(s, start, i + 1, depth - 1, FALSE, esc)
    ELSE BraceScan(s, start, i + 1, depth, FALSE, esc)

\* extract_first_json_object that ends at the first "}" wherever it stands.
extract_to_first_closing_brace(s) ==
    LET start == FindFrom(s, 1, <<"{">>)
        stop  == FindFrom(s, start + 1, <<"}">>)
    IN  IF start = 0 \/ stop = 0
        THEN [found |-> FALSE, text |-> <<>>]
        ELSE [found |-> TRUE, text |-> SubSeq(s, start, stop)]

\* _extract_first_json_object(s): the text from the first "{" to the brace
\* that closes it, or None (found = FALSE).
extract_first_json_object(s) ==
    LET start == FindFrom(s, 1, <<"{">>)
    IN  IF start = 0
        THEN [found |-> FALSE, text |-> <<>>]
        ELSE BraceScan(s, start, start, 0, FALSE, FALSE)

\* 3) Extract first balanced JSON object: json.loads(block).
BraceParse(s) ==
    LET m == extract_first_json_object(s)
    IN  IF m.found THEN JsonLoads(m.text) ELSE NoValue

\* re.search(r"\bFROM\b\s+\S+|\bfrom\b\s+\S+", combined): no IGNORECASE, so
\* only the two spellings FROM and from match.
FromStageAt(s, i, word) ==
    /\ OccursAt(s, i, word)
    /\ WordBoundary(s, i)
    /\ WordBoundary(s, i + 4)
    /\ i + 4 <= Len(s)
    /\ s[i + 4] \in WS
    /\ SkipWS(s, i + 4) <= Len(s)

looks_like_esql(s) ==
    \E i \in 1..Len(s) :
        \/ FromStageAt(s, i, <<"F", "R", "O", "M">>)
        \/ FromStageAt(s, i, <<"f", "r", "o", "m">>)

\* re.search(r":\s*\"([^\"]+)\"", combined): [found, text], text being
\* group 1, of the leftmost colon that is followed by a non-empty quoted text.
QuotedAfterColonAt(s, i) ==
    LET j == SkipWS(s, i + 1)
        k == FindFrom(s, j + 1, <<"\"">>)
    IN  IF s[i] = ":" /\ j <= Len(s) /\ s[j] = "\"" /\ k > j + 1
        THEN [found |-> TRUE, text |-> SubSeq(s, j + 1, k - 1)]
        ELSE [found |-> FALSE, text |-> <<>>]

QuotedAfterColon(s) ==
    LET at == {i \in 1..Len(s) : QuotedAfterColonAt(s, i).found}
    IN  IF at = {}
        THEN [found |-> FALSE, text |-> <<>>]
        ELSE QuotedAfterColonAt(s, SetMin(at))

HeuristicExplanation == <<"H", "e", "u", "r", "i", "s", "t", "i", "c", "a", "l", "l", "y", " ", "r", "e", "c", "o", "v", "e", "r", "e", "d", " ", "E", "S", "Q", "L", " ", "f", "r", "o", "m", " ", "a", " ", "n", "o", "n", "-", "J", "S", "O", "N", " ", "r", "e", "s", "p", "o", "n", "s", "e">>

\* 4) Heuristic: salvage plain ESQL.
SalvageEsql(s) ==
    LET m        == QuotedAfterColon(s)
        pipeline == IF m.found THEN m.text ELSE s
    IN  IF looks_like_esql(s)
        THEN [ok |-> TRUE,
              v  |-> JObj(<< <<<<"m", "o", "d", "e">>, JStr(<<"e", "s", "q", "l">>)>>,
                             <<<<"q", "u", "e", "r", "y">>, JStr(Strip(pipeline))>>,
                             <<<<"e", "x", "p", "l", "a", "n", "a", "t", "i", "o", "n">>, JStr(HeuristicExplanation)>> >>)]
        ELSE NoValue

(***************************************************************************)
(* ESQL validation and normalization (ask, _normalize_esql)                *)
(***************************************************************************)

bad_literals == {<<"e", "s", "q", "l">>,
                 <<"d", "s", "l">>,
                 <<"q", "u", "e", "r", "y">>,
                 <<"s", "q", "l">>}

\* The literal 12 of  len(esql_raw) < 12.
MinEsqlLen == 12

StageKeywords ==
    {<<"w", "h", "e", "r", "e">>,
     <<"s", "t", "a", "t", "s">>,
     <<"s", "o", "r", "t">>,
     <<"l", "i", "m", "i", "t">>,
     <<"e", "v", "a", "l">>,
     <<"k", "e", "e", "p">>,
     <<"d", "r", "o", "p">>,
     <<"r", "e", "n", "a", "m", "e">>,
     <<"g", "r", "o", "k">>,
     <<"d", "i", "s", "s", "e", "c", "t">>}

\* re.search(r"\b(where|stats|...|dissect)\b", esql_raw, re.I)
HasStageKeyword(s) ==
    \E w \in StageKeywords : \E i \in 1..Len(s) :
        /\ OccursAtNoCase(s, i, w)
        /\ WordBoundary(s, i)
        /\ WordBoundary(s, i + Len(w))

\* InvalidEsql without the test of the length.
InvalidEsqlAnyLength(esql_raw) ==
    \/ esql_raw = <<>>
    \/ Lower(esql_raw) \in bad_literals

\* not esql_raw or esql_raw.lower() in bad_literals or len(esql_raw) < 12
InvalidEsql(esql_raw) ==
    \/ esql_raw = <<>>
    \/ Lower(esql_raw) \in bad_literals
    \/ Len(esql_raw) < MinEsqlLen

\* StartsWithFrom without IGNORECASE: the spelling from only.
StartsWithFromLowerOnly(s) ==
    LET a == SkipWS(s, 1)
    IN  /\ OccursAt(s, a, <<"f", "r", "o", "m">>)
        /\ a + 4 <= Len(s)
        /\ s[a + 4] \in WS
        /\ SkipWS(s, a + 4) <= Len(s)

\* re.match(r"^\s*from\s+\S+", s, re.IGNORECASE)
StartsWithFrom(s) ==
    LET a == SkipWS(s, 1)
    IN  /\ OccursAtNoCase(s, a, <<"f", "r", "o", "m">>)
        /\ a + 4 <= Len(s)
        /\ s[a + 4] \in WS
        /\ SkipWS(s, a + 4) <= Len(s)

\* _normalize_esql(esql)
normalize_esql(esql) ==
    LET s == Strip(esql)
    IN  IF StartsWithFrom(s)
        THEN s
        ELSE <<"F", "R", "O", "M", " ">> \o ES_INDEX \o <<" ", "|", " ">> \o s

(***************************************************************************)
(* The state of one /ask request                                           *)
(***************************************************************************)

VARIABLES
    using_llama,  \* OLLAMA_MODEL.lower().startswith("llama3")
    size_cap,     \* req.size
    pc,           \* where the request is
    call,         \* "gen": the query-generation call of _ollama_generate_json,
                  \* "sum": the summarization call
    reqs,         \* the requests the current call has sent to the model, each
                  \* with the answer it got: "ok", "404" or "error"
    chat404,      \* the current call re-posted to /api/generate after a 404
    agg,          \* the text aggregated from the stream: "pending", "text", "empty"
    combined,     \* combined
    tried,        \* the recovery strategies the current call has run
    llm,          \* llm, the value the query-generation call returned
    summary,      \* [raised, v]: the summarization call raised, or returned v
    mode,         \* mode
    query,        \* query
    sent,         \* the calls made to the store
    hits,         \* hits
    sample,       \* sample
    store_resp,   \* the last answer of the store: [transport, status]
    result        \* the response of the request

vars == <<using_llama, size_cap, pc, call, reqs, chat404, agg, combined, tried,
          llm, summary, mode, query, sent, hits, sample, store_resp, result>>

TxtEsql == <<"e", "s", "q", "l">>

TxtDsl == <<"d", "s", "l">>

KeyMode == <<"m", "o", "d", "e">>

KeyQuery == <<"q", "u", "e", "r", "y">>

KeySize == <<"s", "i", "z", "e">>

KeySummary == <<"s", "u", "m", "m", "a", "r", "y">>

\* The answer of line 515 and the default of line 512.
SummaryUnavailable == <<"(", "s", "u", "m", "m", "a", "r", "y", " ", "u", "n", "a", "v", "a", "i", "l", "a", "b", "l", "e", ";", " ", "s", "e", "e", " ", "r", "a", "w", " ", "r", "e", "s", "u", "l", "t", "s", ")">>

NoSummary == <<"(", "n", "o", " ", "s", "u", "m", "m", "a", "r", "y", ")">>

Pending ==
    [status |-> 0, kind |-> "pending", detail |-> {}, mode |-> <<>>,
     query |-> JNull, hits |-> 0, sample |-> <<>>, answer |-> <<>>,
     llm_raw |-> JNull]

\* raise HTTPException(status_code=status, detail=...): kind names the error
\* of the taxonomy, detail what the detail carries.
HttpError(status, kind, detail) ==
    [Pending EXCEPT !.status = status, !.kind = kind, !.detail = detail]

\* An exception that is no HTTPException (AttributeError, TypeError,
\* ValueError, pydantic's ValidationError): nothing catches it and the
\* framework answers 500.
Unhandled == HttpError(500, "Unhandled", {})

NoSummaryYet == [raised |-> FALSE, v |-> JNull]

\* Control leaves the current step for step p.
Goto(p) ==
    /\ pc' = p
    /\ UNCHANGED <<result, llm, summary>>

\* An HTTPException raised inside _ollama_generate_json ends the request when
\* the query-generation call raises it (line 452) and is caught when the
\* summarization call raises it (lines 507-515).
Raise(status, kind, detail) ==
    IF call = "gen"
    THEN /\ pc' = "done"
         /\ result' = HttpError(status, kind, detail)
         /\ UNCHANGED <<llm, summary>>
    ELSE /\ pc' = "respond"
         /\ summary' = [raised |-> TRUE, v |-> JNull]
         /\ UNCHANGED <<result, llm>>

Crash ==
    /\ pc' = "done"
    /\ result' = Unhandled
    /\ UNCHANGED <<llm, summary>>

\* _ollama_generate_json returns v to ask.
Return(v) ==
    IF call = "gen"
    THEN /\ pc' = "validate"
         /\ llm' = v
         /\ UNCHANGED <<result, summary>>
    ELSE /\ pc' = "respond"
         /\ summary' = [raised |-> FALSE, v |-> v]
         /\ UNCHANGED <<result, llm>>

(***************************************************************************)
(* What the model answers.  A stream is a sequence of at most MaxChunks    *)
(* chunks; the texts below are the response pieces a chunk may carry.      *)
(***************************************************************************)

MaxChunks == 2

\* {"mode":"esql",   (opens an object whose mode is esql)
GenPiece1 ==
    <<"{", "\"", "m", "o", "d", "e", "\"", ":", "\"", "e", "s", "q", "l", "\"", ",">>

\* {"mode":"DSL",   (mode dsl in capitals)
GenPiece2 ==
    <<"{", "\"", "m", "o", "d", "e", "\"", ":", "\"", "D", "S", "L", "\"", ",">>

\* {"mode":"sql",   (a mode that is neither)
GenPiece3 ==
    <<"{", "\"", "m", "o", "d", "e", "\"", ":", "\"", "s", "q", "l", "\"", ",">>

\* {"mode":7,   (a mode that is no text)
GenPiece4 ==
    <<"{", "\"", "m", "o", "d", "e", "\"", ":", "7", ",">>

\* {   (opens an object without a mode)
GenPiece5 ==
    <<"{">>

\* "query":"where a=1 | limit 5"}   (a pipeline without a FROM stage)
GenPiece6 ==
    <<"\"", "q", "u", "e", "r", "y", "\"", ":", "\"", "w", "h", "e", "r", "e", " ", "a", "=", "1", " ", "|", " ", "l", "i", "m", "i", "t", " ", "5", "\"", "}">>

\* "query":"from other | sort a"}   (a pipeline that names another index)
GenPiece7 ==
    <<"\"", "q", "u", "e", "r", "y", "\"", ":", "\"", "f", "r", "o", "m", " ", "o", "t", "h", "e", "r", " ", "|", " ", "s", "o", "r", "t", " ", "a", "\"", "}">>

\* "query":"esql"}   (a placeholder word)
GenPiece8 ==
    <<"\"", "q", "u", "e", "r", "y", "\"", ":", "\"", "e", "s", "q", "l", "\"", "}">>

\* "query":"limit 5"}   (a pipeline shorter than 12 characters)
GenPiece9 ==
    <<"\"", "q", "u", "e", "r", "y", "\"", ":", "\"", "l", "i", "m", "i", "t", " ", "5", "\"", "}">>

\* "query":"from logs | sorted_x"}   (no stage keyword as a whole word)
GenPiece10 ==
    <<"\"", "q", "u", "e", "r", "y", "\"", ":", "\"", "f", "r", "o", "m", " ", "l", "o", "g", "s", " ", "|", " ", "s", "o", "r", "t", "e", "d", "_", "x", "\"", "}">>

\* "query":{"size":9,"q":1}}   (a DSL body)
GenPiece11 ==
    <<"\"", "q", "u", "e", "r", "y", "\"", ":", "{", "\"", "s", "i", "z", "e", "\"", ":", "9", ",", "\"", "q", "\"", ":", "1", "}", "}">>

\* [1]   (a JSON array)
GenPiece12 ==
    <<"[", "1", "]">>

\* hello   (prose)
GenPiece13 ==
    <<"h", "e", "l", "l", "o">>

\* one space
GenPiece14 ==
    <<" ">>

\* {"mode":"",   (an empty mode)
GenPiece15 ==
    <<"{", "\"", "m", "o", "d", "e", "\"", ":", "\"", "\"", ",">>

GenPieces ==
    {GenPiece1, GenPiece2, GenPiece3, GenPiece4, GenPiece5, GenPiece6,
     GenPiece7, GenPiece8, GenPiece9, GenPiece10, GenPiece11, GenPiece12,
     GenPiece13, GenPiece14, GenPiece15}

\* {"summary":"ok"}   (a summary)
SumPiece1 ==
    <<"{", "\"", "s", "u", "m", "m", "a", "r", "y", "\"", ":", "\"", "o", "k", "\"", "}">>

\* {"summary":["a"]}   (a summary that is no text)
SumPiece2 ==
    <<"{", "\"", "s", "u", "m", "m", "a", "r", "y", "\"", ":", "[", "\"", "a", "\"", "]", "}">>

\* [1]   (a JSON array)
SumPiece3 ==
    <<"[", "1", "]">>

\* hi   (prose)
SumPiece4 ==
    <<"h", "i">>

\* one space
SumPiece5 ==
    <<" ">>

SumPieces == {SumPiece1, SumPiece2, SumPiece3, SumPiece4, SumPiece5}

Pieces == IF call = "gen" THEN GenPieces ELSE SumPieces

\* One line of the stream ("Ollama streaming returns one JSON object per
\* line"): its response piece and its done marker.
Chunks(P) == [piece : P, done : BOOLEAN]

Streams(P) == UNION {[1..n -> Chunks(P)] : n \in 0..MaxChunks}

\* The loop of lines 146-166 from chunk i on, buf being the pieces so far:
\* the pieces are joined in arrival order and a chunk with done set ends
\* the loop.
RECURSIVE AggregateFrom(_, _, _)
AggregateFrom(chunks, i, buf) ==
    IF i > Len(chunks) THEN buf
    ELSE IF chunks[i].done THEN buf \o chunks[i].piece
    ELSE AggregateFrom(chunks, i + 1, buf \o chunks[i].piece)

\* NeedsRetry that asks for the retry whatever the text.
NeedsRetryAlways(text) == TRUE

\* The test  if not combined:  of line 180
NeedsRetry(text) == text = <<>>

(***************************************************************************)
(* _ollama_generate_json                                                   *)
(***************************************************************************)

\* Lines 97-125 and 138-140: the streaming request.  The answer is a success,
\* a 404, or a failure (no connection, a timeout, another error status).
Post ==
    /\ pc = "post"
    /\ \E resp \in {"ok", "404", "error"} :
          /\ reqs' = Append(reqs, [url    |-> IF using_llama THEN "chat" ELSE "generate",
                                   stream |-> TRUE,
                                   answer |-> resp])
          /\ IF resp = "ok" THEN Goto("stream")
             ELSE IF resp = "404" /\ using_llama THEN Goto("chat404")
             ELSE Raise(502, "ModelUnavailable", {"error"})
    /\ UNCHANGED <<using_llama, size_cap, call, chat404, agg, combined, tried,
                   mode, query, sent, hits, sample, store_resp>>

\* Lines 127-140: the chat endpoint answered 404, the request is sent again
\* to /api/generate.
ChatFallbackPost ==
    /\ pc = "chat404"
    /\ chat404' = TRUE
    /\ \E resp \in {"ok", "error"} :
          /\ reqs' = Append(reqs, [url |-> "generate", stream |-> TRUE,
                                   answer |-> resp])
          /\ IF resp = "ok" THEN Goto("stream")
             ELSE Raise(502, "ModelUnavailable", {"error"})
    /\ UNCHANGED <<using_llama, size_cap, call, agg, combined, tried,
                   mode, query, sent, hits, sample, store_resp>>

\* Lines 142-180: the stream is read to its end, to a done chunk or to a
\* failure of the connection, and its pieces are joined and stripped.
Aggregate ==
    /\ pc = "stream"
    /\ \E broken \in BOOLEAN : \E chunks \in Streams(Pieces) :
          LET text == Strip(AggregateFrom(chunks, 1, <<>>))
          IN  IF broken
              THEN Raise(502, "ModelUnavailable", {"error"})
                   /\ UNCHANGED <<agg, combined>>
              ELSE /\ combined' = text
                   /\ agg' = IF text = <<>> THEN "empty" ELSE "text"
                   /\ Goto(IF NeedsRetry(text) THEN "retry" ELSE "direct")
    /\ UNCHANGED <<using_llama, size_cap, call, reqs, chat404, tried,
                   mode, query, sent, hits, sample, store_resp>>

\* Lines 180-212: the one retry, not streamed.  Its answer is a failure or a
\* JSON object with a text.
Retry ==
    /\ pc = "retry"
    /\ \E out \in {"error", "ok"} : \E piece \in Pieces :
          LET text == Strip(piece)
          IN  /\ reqs' = Append(reqs, [url    |-> IF using_llama THEN "chat"
                                                  ELSE "generate",
                                       stream |-> FALSE,
                                       answer |-> out])
              /\ IF out = "error"
                 THEN Raise(502, "ModelUnavailable", {"error"}) /\ UNCHANGED combined
                 ELSE /\ combined' = text
                      /\ IF text = <<>>
                         THEN Raise(500, "EmptyModelResponse", {})
                         ELSE Goto("direct")
    /\ UNCHANGED <<using_llama, size_cap, call, chat404, agg, tried,
                   mode, query, sent, hits, sample, store_resp>>

\* What a recovery strategy yields on the text s.
StrategyResult(name, s) ==
    CASE name = "direct"  -> DirectParse(s)
      [] name = "fenced"  -> FencedParse(s)
      [] name = "brace"   -> BraceParse(s)
      [] name = "salvage" -> SalvageEsql(s)

\* AfterFail with the second and the third strategy in each other's place.
AfterFailBraceFirst(name) ==
    CASE name = "direct"  -> "brace"
      [] name = "brace"   -> "fenced"
      [] name = "fenced"  -> "salvage"
      [] name = "salvage" -> "unrecoverable"

\* Lines 214-281: the strategy that follows one that did not return.
AfterFail(name) ==
    CASE name = "direct"  -> "fenced"
      [] name = "fenced"  -> "brace"
      [] name = "brace"   -> "salvage"
      [] name = "salvage" -> "unrecoverable"

Try(name) ==
    /\ pc = name
    /\ tried' = tried \cup {name}
    /\ LET r == StrategyResult(name, combined)
       IN  IF r.ok THEN Return(r.v)
           ELSE IF AfterFail(name) = "unrecoverable"
           THEN Raise(500, "UnrecoverableOutput", {})
           ELSE Goto(AfterFail(name))
    /\ UNCHANGED <<using_llama, size_cap, call, reqs, chat404, agg, combined,
                   mode, query, sent, hits, sample, store_resp>>

\* Lines 214-218
TryDirect == Try("direct")

\* Lines 220-227
TryFenced == Try("fenced")

\* Lines 229-261
TryBrace == Try("brace")

\* Lines 263-281
TrySalvage == Try("salvage")

(***************************************************************************)
(* run_es_dsl and run_es_esql                                              *)
(***************************************************************************)

\* The result sizes the store answers with are 0..MaxHits.
MaxHits == 1

\* AskRequest.size when the request gives none (line 65).
DefaultSize == 25

\* The status codes the store answers with.
StoreStatuses == {200, 400, 404, 500}

\* int(text): optional whitespace, an optional sign, digits.
IntOfText(s) ==
    LET u      == Strip(s)
        signed == u # <<>> /\ u[1] \in {"+", "-"}
        ds     == IF signed THEN Tail(u) ELSE u
        ok     == ds # <<>> /\ \A i \in 1..Len(ds) : IsDigit(ds[i])
    IN  IF ~ok THEN [ok |-> FALSE, n |-> 0]
        ELSE [ok |-> TRUE,
              n  |-> IF signed /\ u[1] = "-" THEN 0 - DigitsValue(ds)
                     ELSE DigitsValue(ds)]

\* int(v) of line 335: [ok, n].  A number is truncated toward zero, a text
\* is read as an integer or raises ValueError, None, a list and a mapping
\* raise TypeError.
IntOf(v) ==
    CASE v.t = "num"  -> [ok |-> TRUE, n |-> IF v.neg THEN 0 - v.ip ELSE v.ip]
      [] v.t = "bool" -> [ok |-> TRUE, n |-> IF v.b THEN 1 ELSE 0]
      [] v.t = "str"  -> IntOfText(v.s)
      [] OTHER        -> [ok |-> FALSE, n |-> 0]

\* Lines 334-336, "Cap size if user/LLM forgot to": [crash, body], body
\* being the mapping after the assignment.
CapSize(dsl, cap) ==
    IF ~HasKey(dsl, KeySize)
    THEN [crash |-> FALSE, body |-> Put(dsl, KeySize, JInt(cap))]
    ELSE LET n == IntOf(Get(dsl, KeySize))
         IN  IF ~n.ok THEN [crash |-> TRUE, body |-> dsl]
             ELSE IF n.n > cap
             THEN [crash |-> FALSE, body |-> Put(dsl, KeySize, JInt(cap))]
             ELSE [crash |-> FALSE, body |-> dsl]

\* An HTTPException raised in ask, run_es_dsl or run_es_esql ends the request.
Abort(status, kind, detail) ==
    /\ pc' = "done"
    /\ result' = HttpError(status, kind, detail)
    /\ UNCHANGED <<llm, summary>>

\* Lines 342-360: what run_es_dsl raises for an answer of the store.
DslFailure(transport, status) ==
    IF transport
    THEN HttpError(502, "StoreTransportError", {"error", "query", "url"})
    ELSE HttpError(400, "StoreQueryError", {"es_response", "query", "url"})

\* EsqlFailure without the branch of the status 404.
EsqlFailureNo404(transport, status) ==
    IF transport
    THEN HttpError(502, "StoreTransportError", {"error", "query"})
    ELSE HttpError(400, "StoreQueryError", {"es_response", "query"})

\* Lines 398-418: what run_es_esql raises for an answer of the store.
EsqlFailure(transport, status) ==
    IF transport
    THEN HttpError(502, "StoreTransportError", {"error", "query"})
    ELSE IF status = 404
    THEN HttpError(400, "UnsupportedEndpoint", {})
    ELSE HttpError(400, "StoreQueryError", {"es_response", "query"})

\* The answers of the store: no answer (no connection, a timeout), or a
\* status code.
NoAnswer == [transport |-> FALSE, status |-> 0]

StoreAnswers ==
    {[transport |-> TRUE, status |-> 0]}
        \cup {[transport |-> FALSE, status |-> s] : s \in StoreStatuses}

\* Line 493 on: the summarization call of _ollama_generate_json begins.
BeginSummary ==
    /\ pc' = "post"
    /\ call' = "sum"
    /\ reqs' = <<>>
    /\ chat404' = FALSE
    /\ agg' = "pending"
    /\ combined' = <<>>
    /\ tried' = {}
    /\ UNCHANGED <<result, summary>>

\* EndInStore that drops the error r and goes on to the summarization call.
EndInStoreSwallowed(r) ==
    /\ pc' = "post"
    /\ call' = "sum"
    /\ reqs' = <<>>
    /\ UNCHANGED <<result, summary, chat404, agg, combined, tried>>

\* The request ends in run_es_dsl or run_es_esql with the response r.
EndInStore(r) ==
    /\ pc' = "done"
    /\ result' = r
    /\ UNCHANGED <<summary, call, reqs, chat404, agg, combined, tried>>

\* ask, line 467, and run_es_dsl.  dsl is the mapping llm["query"] itself:
\* the assignment of line 336 shows in llm as well.
RunEsDsl ==
    /\ pc = "exec_dsl"
    /\ LET c == CapSize(query, size_cap)
       IN  IF c.crash
           THEN /\ EndInStore(Unhandled)
                /\ UNCHANGED <<llm, query, sent, hits, sample, store_resp>>
           ELSE /\ query' = c.body
                /\ llm' = Put(llm, KeyQuery, c.body)
                /\ sent' = Append(sent, [kind |-> "dsl", body |-> c.body])
                /\ \E answer \in StoreAnswers : \E n \in 0..MaxHits :
                      /\ store_resp' = answer
                      /\ IF answer.transport \/ answer.status >= 400
                         THEN /\ EndInStore(DslFailure(answer.transport, answer.status))
                              /\ UNCHANGED <<hits, sample>>
                         ELSE /\ hits' = n
                              /\ sample' = [list |-> TRUE, rows |-> [i \in 1..n |-> i]]
                              /\ BeginSummary
    /\ UNCHANGED <<using_llama, size_cap, mode>>

\* ask, lines 483-491, and run_es_esql.
RunEsEsql ==
    /\ pc = "exec_esql"
    /\ LET normalized == normalize_esql(Strip(query.s))
       IN  /\ sent' = Append(sent, [kind |-> "esql", body |-> JStr(normalized)])
           /\ \E answer \in StoreAnswers : \E n \in 0..MaxHits :
                 /\ store_resp' = answer
                 /\ IF answer.transport \/ answer.status >= 400
                    THEN /\ EndInStore(EsqlFailure(answer.transport, answer.status))
                         /\ UNCHANGED <<query, hits, sample>>
                    ELSE /\ hits' = n
                         /\ sample' = [list |-> FALSE, rows |-> [i \in 1..n |-> i]]
                         /\ query' = JStr(normalized)
                         /\ BeginSummary
    /\ UNCHANGED <<using_llama, size_cap, mode, llm>>

(***************************************************************************)
(* ask                                                                     *)
(***************************************************************************)

\* ValidModes with sql let through.
ValidModesWithSql == {TxtEsql, TxtDsl, <<"s", "q", "l">>}

\* The modes of line 457.
ValidModes == {TxtEsql, TxtDsl}

\* Line 454, (llm.get("mode") or "esql").lower(): [ok, text], ok being FALSE
\* where the value has no lower() and AttributeError is raised.
ReadMode(v) ==
    LET m   == Get(v, KeyMode)
        eff == IF Truthy(m) THEN m ELSE JStr(TxtEsql)
    IN  [ok |-> IsStr(eff), text |-> Lower(eff.s)]

\* Lines 452-482: the recovered value is read and checked.  The locals of
\* the call of _ollama_generate_json that returned it are gone.
Validate ==
    /\ pc = "validate"
    /\ IF ~IsMapping(llm)
       THEN Crash /\ UNCHANGED <<mode, query>>
       ELSE LET m == ReadMode(llm)
                q == Get(llm, KeyQuery)
            IN  IF ~m.ok
                THEN Crash /\ UNCHANGED <<mode, query>>
                ELSE /\ mode' = m.text
                     /\ query' = q
                     /\ IF m.text \notin ValidModes
                        THEN Abort(400, "InvalidMode", {"mode"})
                        ELSE IF m.text = TxtDsl
                        THEN IF ~IsMapping(q)
                             THEN Abort(400, "MalformedQuery", {})
                             ELSE Goto("exec_dsl")
                        ELSE IF ~IsStr(q)
                        THEN Abort(400, "MalformedQuery", {})
                        ELSE IF InvalidEsql(Strip(q.s))
                        THEN Abort(400, "IncompletePipeline", {"llm_raw"})
                        ELSE IF ~HasStageKeyword(Strip(q.s))
                        THEN Abort(400, "IncompletePipeline", {"query", "llm_raw"})
                        ELSE Goto("exec_esql")
    /\ reqs' = <<>>
    /\ chat404' = FALSE
    /\ agg' = "pending"
    /\ combined' = <<>>
    /\ tried' = {}
    /\ UNCHANGED <<using_llama, size_cap, call, sent, hits, sample, store_resp>>

\* The literal 5 of  sample[:5]  (line 521).
SampleCap == 5

\* str(n) of a natural number.
RECURSIVE NatText(_)
NatText(n) ==
    IF n < 10 THEN <<Digits[n + 1]>>
    ELSE NatText(n \div 10) \o <<Digits[(n % 10) + 1]>>

RECURSIVE DropTrailingZeros(_)
DropTrailingZeros(fr) ==
    IF fr # <<>> /\ fr[Len(fr)] = "0"
    THEN DropTrailingZeros(SubSeq(fr, 1, Len(fr) - 1))
    ELSE fr

\* str(v) of a bool or a number, as pydantic 1 coerces it into a str field.
StrOf(v) ==
    IF v.t = "bool"
    THEN IF v.b THEN <<"T", "r", "u", "e">> ELSE <<"F", "a", "l", "s", "e">>
    ELSE (IF v.neg THEN <<"-">> ELSE <<>>) \o NatText(v.ip) \o
         (IF v.fr = <<>> THEN <<>>
          ELSE <<".">> \o (IF DropTrailingZeros(v.fr) = <<>> THEN <<"0">>
                           ELSE DropTrailingZeros(v.fr)))

\* The AskResponse of lines 517-524.
Response(answer) ==
    [status |-> 200, kind |-> "ok", detail |-> {}, mode |-> mode,
     query |-> query, hits |-> hits,
     sample |-> IF sample.list /\ Len(sample.rows) > SampleCap
                THEN SubSeq(sample.rows, 1, SampleCap)
                ELSE sample.rows,
     answer |-> answer, llm_raw |-> llm]

\* Lines 507-524: the answer is read from the summary or replaced by the
\* placeholder, and the response is built.  AskResponse.answer is a str:
\* pydantic 2 rejects every value that is no text, pydantic 1 turns a number
\* into text and rejects the rest.
Respond ==
    /\ pc = "respond"
    /\ pc' = "done"
    /\ IF summary.raised
       THEN result' = Response(SummaryUnavailable)
       ELSE IF ~IsMapping(summary.v)
       THEN result' = Unhandled
       ELSE LET s == Get(summary.v, KeySummary)
                a == IF Truthy(s) THEN s ELSE JStr(NoSummary)
            IN  IF IsStr(a) THEN result' = Response(a.s)
                ELSE IF a.t \in {"num", "bool"}
                THEN \E coerced \in BOOLEAN :
                        result' = IF coerced THEN Response(StrOf(a)) ELSE Unhandled
                ELSE result' = Unhandled
    /\ UNCHANGED <<using_llama, size_cap, call, reqs, chat404, agg, combined,
                   tried, llm, summary, mode, query, sent, hits, sample, store_resp>>

(***************************************************************************)
(* One request, from its arrival to its response                           *)
(***************************************************************************)

Init ==
    /\ using_llama \in BOOLEAN
    /\ size_cap = DefaultSize
    /\ pc = "post"
    /\ call = "gen"
    /\ reqs = <<>>
    /\ chat404 = FALSE
    /\ agg = "pending"
    /\ combined = <<>>
    /\ tried = {}
    /\ llm = JNull
    /\ summary = NoSummaryYet
    /\ mode = <<>>
    /\ query = JNull
    /\ sent = <<>>
    /\ hits = 0
    /\ sample = [list |-> FALSE, rows |-> <<>>]
    /\ store_resp = NoAnswer
    /\ result = Pending

Next ==
    \/ Post
    \/ ChatFallbackPost
    \/ Aggregate
    \/ Retry
    \/ TryDirect
    \/ TryFenced
    \/ TryBrace
    \/ TrySalvage
    \/ Validate
    \/ RunEsDsl
    \/ RunEsEsql
    \/ Respond

Spec == Init /\ [][Next]_vars

(***************************************************************************)
(* The recovery alone: _ollama_generate_json from line 214 on, on texts    *)
(* joined from at most MaxSegs of the segments below.                      *)
(***************************************************************************)

MaxSegs == 3

\* {"a":1}
RecSeg1 ==
    <<"{", "\"", "a", "\"", ":", "1", "}">>

\* <bq><bq><bq>json\n{"b":2}\n<bq><bq><bq>   (a fenced block with its tag)
RecSeg2 ==
    <<BQ, BQ, BQ, "j", "s", "o", "n", "\n", "{", "\"", "b", "\"", ":", "2", "}", "\n", BQ, BQ, BQ>>

\* <bq><bq><bq>   (a fence alone)
RecSeg3 ==
    <<BQ, BQ, BQ>>

\* from x
RecSeg4 ==
    <<"f", "r", "o", "m", " ", "x">>

\* From y
RecSeg5 ==
    <<"F", "r", "o", "m", " ", "y">>

\* : "p q"
RecSeg6 ==
    <<":", " ", "\"", "p", " ", "q", "\"">>

\* [1]
RecSeg7 ==
    <<"[", "1", "]">>

\* hi and a space
RecSeg8 ==
    <<"h", "i", " ">>

\* {
RecSeg9 ==
    <<"{">>

\* "
RecSeg10 ==
    <<"\"">>

RecSegments ==
    {RecSeg1, RecSeg2, RecSeg3, RecSeg4, RecSeg5, RecSeg6, RecSeg7, RecSeg8,
     RecSeg9, RecSeg10}

\* The aggregated texts: stripped (line 170) and not empty (line 211).
RecBlobs ==
    {Strip(Concat(ss)) :
        ss \in UNION {[1..n -> RecSegments] : n \in 1..MaxSegs}} \ {<<>>}

InitRecover ==
    /\ using_llama = FALSE
    /\ size_cap = DefaultSize
    /\ pc = "direct"
    /\ call = "gen"
    /\ reqs = <<[url |-> "generate", stream |-> TRUE, answer |-> "ok"]>>
    /\ chat404 = FALSE
    /\ agg = "text"
    /\ combined \in RecBlobs
    /\ tried = {}
    /\ llm = JNull
    /\ summary = NoSummaryYet
    /\ mode = <<>>
    /\ query = JNull
    /\ sent = <<>>
    /\ hits = 0
    /\ sample = [list |-> FALSE, rows |-> <<>>]
    /\ store_resp = NoAnswer
    /\ result = Pending

NextRecover ==
    \/ TryDirect
    \/ TryFenced
    \/ TryBrace
    \/ TrySalvage

SpecRecover == InitRecover /\ [][NextRecover]_vars

(***************************************************************************)
(* run_es_dsl alone, on DSL bodies with and without a size, and request    *)
(* sizes 1..MaxCap.                                                        *)
(***************************************************************************)

MaxCap == 2

\* The values of a body's size: integers around the request sizes, decimal
\* fractions, texts, null and true.
SizeValues ==
    {JInt(n) : n \in -1..(MaxCap + 1)}
        \cup {JNum(FALSE, n, <<"5">>) : n \in 0..(MaxCap + 1)}
        \cup {JStr(NatText(MaxCap + 1)), JStr(<<"x">>), JNull, JBool(TRUE)}

DslBodies ==
    {JObj(pre \o size \o post) :
        pre  \in {<<>>, << <<<<"q", "u", "e", "r", "y">>, JObj(<< <<<<"m", "a", "t", "c", "h", "_", "a", "l", "l">>, JObj(<<>>)>> >>)>> >>},
        size \in {<<>>} \cup {<< <<KeySize, v>> >> : v \in SizeValues},
        post \in {<<>>, << <<<<"a", "g", "g", "s">>, JObj(<<>>)>> >>}}

InitDsl ==
    /\ using_llama = FALSE
    /\ size_cap \in 1..MaxCap
    /\ pc = "exec_dsl"
    /\ call = "gen"
    /\ reqs = <<>>
    /\ chat404 = FALSE
    /\ agg = "pending"
    /\ combined = <<>>
    /\ tried = {}
    /\ query \in DslBodies
    /\ llm = JObj(<< <<KeyMode, JStr(TxtDsl)>>, <<KeyQuery, query>> >>)
    /\ summary = NoSummaryYet
    /\ mode = TxtDsl
    /\ sent = <<>>
    /\ hits = 0
    /\ sample = [list |-> FALSE, rows |-> <<>>]
    /\ store_resp = NoAnswer
    /\ result = Pending

NextDsl == RunEsDsl

SpecDsl == InitDsl /\ [][NextDsl]_vars

(***************************************************************************)
(* The recovery strategies (checked under SpecRecover)                     *)
(***************************************************************************)

C1_Order == <<"direct", "fenced", "brace", "salvage">>

\* The strategies that succeed on the text s, by their place in the order.
C1_Succeeding(s) == {i \in 1..4 : StrategyResult(C1_Order[i], s).ok}

\* Prose: the segment  hi  repeated.
C1_Prose ==
    {Concat(ss) : ss \in UNION {[1..n -> {RecSeg8}] : n \in 0..MaxSegs}}

\* The texts made of prose and the one fenced block of RecSeg2.
C1_ProseAndFencedBlock ==
    {Strip(p \o RecSeg2 \o q) : p \in C1_Prose, q \in C1_Prose}

\* The parse of the interior of the fenced block of RecSeg2: {"b": 2}.
C1_FencedInterior == JObj(<< <<<<"b">>, JInt(2)>> >>)

\* C1: once the recovery of a non-empty text has ended, the strategies that
\* ran are exactly those up to the earliest one that succeeds, in the order
\* direct, fenced, brace, salvage, and the value returned is that strategy's
\* result; all four ran when none succeeds.  A text that is valid JSON is
\* returned as its parse after the direct parse alone, and a text of prose
\* and one fenced JSON block is returned as the parse of the block's interior.
C1_EarliestStrategyReturned ==
    (call = "gen" /\ pc \in {"validate", "done"}) =>
        LET ok == C1_Succeeding(combined)
        IN  /\ combined # <<>>
            /\ ok = {} => /\ pc = "done"
                          /\ tried = Range(C1_Order)
            /\ ok # {} => /\ pc = "validate"
                          /\ llm = StrategyResult(C1_Order[SetMin(ok)], combined).v
                          /\ tried = {C1_Order[j] : j \in 1..SetMin(ok)}
            /\ JsonLoads(combined).ok =>
                  /\ llm = JsonLoads(combined).v
                  /\ tried = {"direct"}
            /\ combined \in C1_ProseAndFencedBlock => llm = C1_FencedInterior

\* C1 witness: the text  hi <fenced block>  was returned as the parse of the
\* block's interior by the second strategy.
C1_FencedBlockRecovered ==
    /\ pc = "validate"
    /\ combined = Strip(RecSeg8 \o RecSeg2)
    /\ tried = {"direct", "fenced"}
    /\ llm = C1_FencedInterior

\* C2: the recovery of a text ends in one of two ways: a mapping is returned
\* to ask, or the call fails with UnrecoverableOutput; no value that is not
\* a mapping is returned.
C2_MappingOrUnrecoverable ==
    (call = "gen" /\ pc \in {"validate", "done"}) =>
        \/ pc = "validate" /\ IsMapping(llm)
        \/ pc = "done" /\ result.kind = "UnrecoverableOutput"

\* The keyword FROM occurs in s as a whole word, in any letter case.
C9_HasFromWord(s) ==
    \E i \in 1..Len(s) :
        /\ OccursAtNoCase(s, i, <<"f", "r", "o", "m">>)
        /\ WordBoundary(s, i)
        /\ WordBoundary(s, i + 4)

\* The object that is synthesized around the pipeline p.
C9_Synthesized(p) ==
    JObj(<< <<KeyMode, JStr(TxtEsql)>>,
            <<KeyQuery, JStr(p)>>,
            <<<<"e", "x", "p", "l", "a", "n", "a", "t", "i", "o", "n">>,
              JStr(HeuristicExplanation)>> >>)

\* C9: when none of the three JSON strategies recovers a value from the
\* text, the outcome is the synthesized object exactly when the text holds
\* the keyword FROM as a whole word in any letter case, its pipeline being
\* the quoted text after a colon where there is one and the whole text
\* otherwise; without the keyword the outcome is UnrecoverableOutput.
C9_SalvageOnAnyCaseKeyword ==
    (/\ call = "gen"
     /\ pc \in {"validate", "done"}
     /\ C1_Succeeding(combined) \cap {1, 2, 3} = {}) =>
        IF C9_HasFromWord(combined)
        THEN /\ pc = "validate"
             /\ llm = C9_Synthesized(IF QuotedAfterColon(combined).found
                                     THEN QuotedAfterColon(combined).text
                                     ELSE combined)
        ELSE /\ pc = "done"
             /\ result.status = 500
             /\ result.kind = "UnrecoverableOutput"

(***************************************************************************)
(* The request from its arrival to its response (checked under Spec)       *)
(***************************************************************************)

\* The calls made to the store with an ESQL pipeline.
EsqlCalls == {i \in 1..Len(sent) : sent[i].kind = "esql"}

\* The text s begins with a source-selection stage that names ES_INDEX.
C3_NamesIndex(s) ==
    /\ OccursAtNoCase(s, 1, <<"f", "r", "o", "m">>)
    /\ Len(s) >= 5
    /\ s[5] \in WS
    /\ LET j == SkipWS(s, 5)
           e == j + Len(ES_INDEX)
       IN  /\ OccursAt(s, j, ES_INDEX)
           /\ e > Len(s) \/ s[e] \in WS \cup {"|", ","}

\* C3: every pipeline passed to run_es_esql begins with a source-selection
\* stage naming the configured index pattern ES_INDEX.
C3_SentPipelineNamesIndex ==
    \A i \in EsqlCalls : C3_NamesIndex(sent[i].body.s)

C5_Placeholders ==
    {<<"e", "s", "q", "l">>, <<"d", "s", "l">>, <<"q", "u", "e", "r", "y">>,
     <<"s", "q", "l">>}

C5_Keywords ==
    {<<"w", "h", "e", "r", "e">>, <<"s", "t", "a", "t", "s">>,
     <<"s", "o", "r", "t">>, <<"l", "i", "m", "i", "t">>,
     <<"e", "v", "a", "l">>, <<"k", "e", "e", "p">>, <<"d", "r", "o", "p">>,
     <<"r", "e", "n", "a", "m", "e">>, <<"g", "r", "o", "k">>,
     <<"d", "i", "s", "s", "e", "c", "t">>}

\* The word w stands in q as a whole word, in any letter case.
C5_WholeWord(q, w) ==
    \E i \in 1..Len(q) :
        /\ i + Len(w) - 1 <= Len(q)
        /\ Lower(SubSeq(q, i, i + Len(w) - 1)) = w
        /\ i = 1 \/ ~IsWordChar(q[i - 1])
        /\ i + Len(w) > Len(q) \/ ~IsWordChar(q[i + Len(w)])

\* The trimmed pipeline q is one the store may be asked.
C5_Complete(q) ==
    /\ q # <<>>
    /\ Lower(q) \notin C5_Placeholders
    /\ Len(q) >= 12
    /\ \E w \in C5_Keywords : C5_WholeWord(q, w)

\* C5: an ESQL pipeline is sent to the store only if its trimmed text is not
\* empty, is no placeholder word, has at least 12 characters and holds a
\* stage keyword as a whole word in any letter case; a pipeline that fails
\* one of these ends the request with IncompletePipeline, a 400 that carries
\* the model's output, and no call to the store is made.
C5_OnlyCompletePipelinesSent ==
    LET q == Get(llm, KeyQuery)
    IN  /\ EsqlCalls # {} => IsStr(q) /\ C5_Complete(Strip(q.s))
        /\ (/\ IsMapping(llm)
            /\ pc # "validate"
            /\ mode = TxtEsql
            /\ IsStr(q)
            /\ ~C5_Complete(Strip(q.s))) =>
                /\ pc = "done"
                /\ result.status = 400
                /\ result.kind = "IncompletePipeline"
                /\ "llm_raw" \in result.detail
                /\ sent = <<>>

\* C5 witness: the pipeline  limit 5 , which holds a stage keyword and is
\* shorter than 12 characters, ended the request with IncompletePipeline.
C5_ShortPipelineRejected ==
    /\ pc = "done"
    /\ result.kind = "IncompletePipeline"
    /\ IsStr(Get(llm, KeyQuery))
    /\ Get(llm, KeyQuery).s = <<"l", "i", "m", "i", "t", " ", "5">>
    /\ sent = <<>>

\* The mode of the recovered object v is esql or dsl in some letter case.
C6_ModeIsValid(v) ==
    /\ HasKey(v, KeyMode)
    /\ IsStr(Get(v, KeyMode))
    /\ Lower(Get(v, KeyMode).s) \in {TxtEsql, TxtDsl}

\* C6 as claimed: a recovered object whose mode is anything but esql or dsl
\* (absent, empty and not a text included) fails the request with
\* InvalidMode and no query is executed.
C6_EveryOtherModeIsInvalidMode ==
    (IsMapping(llm) /\ pc # "validate" /\ ~C6_ModeIsValid(llm)) =>
        /\ pc = "done"
        /\ result.kind = "InvalidMode"
        /\ sent = <<>>

\* C6 as amended: a mode that is absent or falsy (null, empty) stands for
\* esql and is no error; a mode that is a non-empty text other than esql and
\* dsl, letter case aside, fails the request with InvalidMode (400); a mode
\* that is truthy and no text fails it with an unhandled error (500); in
\* both failures no query is executed, and a query that is executed is of
\* the style the mode names.
C6_ModeDispatch ==
    (IsMapping(llm) /\ pc # "validate") =>
        LET m == Get(llm, KeyMode)
        IN  /\ ~Truthy(m) => mode = TxtEsql /\ result.kind # "InvalidMode"
            /\ (Truthy(m) /\ ~IsStr(m)) =>
                  /\ pc = "done"
                  /\ result.status = 500
                  /\ result.kind = "Unhandled"
                  /\ sent = <<>>
            /\ (Truthy(m) /\ IsStr(m)) =>
                  /\ mode = Lower(m.s)
                  /\ IF Lower(m.s) \in {TxtEsql, TxtDsl}
                     THEN result.kind # "InvalidMode"
                     ELSE /\ pc = "done"
                          /\ result.status = 400
                          /\ result.kind = "InvalidMode"
                          /\ "mode" \in result.detail
                          /\ sent = <<>>
            /\ \A i \in 1..Len(sent) :
                  sent[i].kind = IF mode = TxtDsl THEN "dsl" ELSE "esql"

\* C6 witness: the mode sql ended the request with InvalidMode.
C6_SqlModeRejected ==
    /\ pc = "done"
    /\ result.kind = "InvalidMode"
    /\ IsStr(Get(llm, KeyMode))
    /\ Get(llm, KeyMode).s = <<"s", "q", "l">>
    /\ sent = <<>>

\* C7: once the query has been executed, the request answers 200 with the
\* mode, the query, the hit count and the sample whatever the summarization
\* call did, the answer being the placeholder when that call failed or gave
\* no mapping or no text.
C7_SummaryFailureNeverFailsRequest ==
    (call = "sum" /\ pc = "done") =>
        /\ result.status = 200
        /\ result.mode = mode
        /\ result.query = query
        /\ result.hits = hits
        /\ (\/ summary.raised
            \/ ~IsMapping(summary.v)
            \/ (Truthy(Get(summary.v, KeySummary))
                  /\ ~IsStr(Get(summary.v, KeySummary)))) =>
                result.answer = SummaryUnavailable

\* The requests of the current call that were not streamed.
C8_NotStreamed == {i \in 1..Len(reqs) : ~reqs[i].stream}

\* The current call of _ollama_generate_json failed: the query-generation
\* call ends the request with the kind, the summarization call's error is
\* caught by ask.
C8_CallFailedWith(kind) ==
    IF call = "gen"
    THEN pc = "done" /\ result.kind = kind
    ELSE pc \in {"respond", "done"} /\ summary.raised

\* C8 as claimed: the only request a call sends beyond its first is the one
\* retry, not streamed, sent when the text aggregated from the stream is
\* empty; a non-empty text brings no retry, an empty answer to the retry
\* fails the call with EmptyModelResponse, and a call sends two requests at
\* most.
C8_OnlyTheRetryFollows ==
    /\ Len(reqs) <= 2
    /\ \A i \in 2..Len(reqs) : ~reqs[i].stream /\ agg = "empty"
    /\ agg = "text" => C8_NotStreamed = {}
    /\ (agg = "empty" /\ pc # "retry") => Cardinality(C8_NotStreamed) = 1
    /\ (/\ C8_NotStreamed # {}
        /\ reqs[Len(reqs)].answer = "ok"
        /\ combined = <<>>) => C8_CallFailedWith("EmptyModelResponse")

\* C8 as amended: when the text aggregated from the stream is empty exactly
\* one retry is sent, not streamed, as the call's last request, and an empty
\* answer to it fails the call with EmptyModelResponse; a non-empty text
\* brings no retry.  The one other further request is the streaming request
\* sent again to /api/generate when the model is a llama3 model and the chat
\* endpoint answered the first request with 404, so a call sends three
\* requests at most.
C8_RequestsPerCallBounded ==
    /\ Len(reqs) <= 3
    /\ \A i \in C8_NotStreamed : i = Len(reqs) /\ agg = "empty"
    /\ agg = "text" => C8_NotStreamed = {}
    /\ (agg = "empty" /\ pc # "retry") => Cardinality(C8_NotStreamed) = 1
    /\ (/\ C8_NotStreamed # {}
        /\ reqs[Len(reqs)].answer = "ok"
        /\ combined = <<>>) => C8_CallFailedWith("EmptyModelResponse")
    /\ \A i \in 2..Len(reqs) :
          reqs[i].stream =>
              /\ i = 2
              /\ using_llama
              /\ chat404
              /\ reqs[1] = [url |-> "chat", stream |-> TRUE, answer |-> "404"]
              /\ reqs[2].url = "generate"

\* C8 witness: the stream gave no text, the retry gave none either, and the
\* request ended with EmptyModelResponse after two requests.
C8_EmptyAfterRetry ==
    /\ call = "gen"
    /\ pc = "done"
    /\ result.kind = "EmptyModelResponse"
    /\ agg = "empty"
    /\ Len(reqs) = 2
    /\ C8_NotStreamed = {2}

\* The request failed in the store, on an ESQL call or on a DSL call.
C10_StoreFailed(kind) ==
    /\ call = "gen"
    /\ pc = "done"
    /\ sent # <<>>
    /\ sent[Len(sent)].kind = kind
    /\ store_resp.transport \/ store_resp.status >= 400

\* The status every kind of the taxonomy surfaces with, the kind of a store
\* failure being read from the store's answer, and what its detail carries;
\* unsupported is the status of UnsupportedEndpoint and malformed the detail
\* of MalformedQuery.
C10_StatusClasses(unsupported, malformed) ==
    /\ result.kind \in {"pending", "ok", "Unhandled", "ModelUnavailable",
                        "EmptyModelResponse", "UnrecoverableOutput",
                        "InvalidMode", "MalformedQuery", "IncompletePipeline",
                        "StoreQueryError", "StoreTransportError",
                        "UnsupportedEndpoint"}
    /\ result.kind = "ModelUnavailable" => result.status = 502
    /\ (call = "gen" /\ pc = "done" /\ sent = <<>> /\ reqs # <<>>
          /\ reqs[Len(reqs)].answer # "ok") =>
            result.kind = "ModelUnavailable"
    /\ result.kind \in {"EmptyModelResponse", "UnrecoverableOutput"} =>
            result.status = 500
    /\ result.kind = "InvalidMode" =>
            result.status = 400 /\ "mode" \in result.detail
    /\ result.kind = "MalformedQuery" =>
            result.status = 400 /\ result.detail \in malformed
    /\ result.kind = "IncompletePipeline" =>
            result.status = 400 /\ "llm_raw" \in result.detail
    /\ \A k \in {"esql", "dsl"} :
          C10_StoreFailed(k) =>
              IF store_resp.transport
              THEN /\ result.status = 502
                   /\ result.kind = "StoreTransportError"
              ELSE IF k = "esql" /\ store_resp.status = 404
              THEN /\ result.status = unsupported
                   /\ result.kind = "UnsupportedEndpoint"
              ELSE /\ result.status = 400
                   /\ result.kind = "StoreQueryError"
                   /\ "es_response" \in result.detail
    /\ result.kind \in {"StoreTransportError", "UnsupportedEndpoint",
                        "StoreQueryError"} =>
            C10_StoreFailed("esql") \/ C10_StoreFailed("dsl")

\* C10 as claimed: ModelUnavailable, StoreTransportError and
\* UnsupportedEndpoint (the store answers 404 to the ESQL call) surface as a
\* gateway failure (502), EmptyModelResponse and UnrecoverableOutput as an
\* internal failure (500), InvalidMode, MalformedQuery, IncompletePipeline
\* and StoreQueryError as a bad request (400) that carries the store's error
\* body or the offending text.
C10_TaxonomyStatusClasses ==
    C10_StatusClasses(502, {d \in SUBSET {"query", "llm_raw", "mode"} : d # {}})

\* C10 as amended: as claimed, but UnsupportedEndpoint surfaces as a bad
\* request (400) with a fixed message, and MalformedQuery carries a fixed
\* message only.
C10_StatusClassesOfTheCode == C10_StatusClasses(400, {{}})

\* C10 witness: the store answered 404 to the ESQL call and the request
\* ended with UnsupportedEndpoint as a bad request.
C10_UnsupportedEndpointIs400 ==
    /\ C10_StoreFailed("esql")
    /\ store_resp.status = 404
    /\ result.kind = "UnsupportedEndpoint"
    /\ result.status = 400

(***************************************************************************)
(* The size of a DSL body (checked under SpecDsl)                          *)
(***************************************************************************)

\* The fields of the mapping o other than size.
C4_OtherFields(o) == {p \in Range(o.kv) : p[1] # KeySize}

\* The value v, a size that int() reads, is greater than cap.
C4_Greater(v, cap) ==
    CASE v.t = "num"  -> ~v.neg /\ (v.ip > cap \/ (v.ip = cap /\ FracNonZero(v.fr)))
      [] v.t = "bool" -> (IF v.b THEN 1 ELSE 0) > cap
      [] v.t = "str"  -> IntOfText(v.s).n > cap
      [] OTHER        -> FALSE

\* C4: the body run_es_dsl sends equals the model's body in every field but
\* size, and its size is size_cap when the model's body had no size or a
\* size greater than size_cap, and the body's own size otherwise.
C4_SizeClampedDownwardOnly ==
    [][(pc = "exec_dsl" /\ Len(sent') = Len(sent) + 1) =>
          LET out == sent'[Len(sent')].body
          IN  /\ C4_OtherFields(out) = C4_OtherFields(query)
              /\ HasKey(out, KeySize)
              /\ Get(out, KeySize) =
                    IF ~HasKey(query, KeySize)
                          \/ C4_Greater(Get(query, KeySize), size_cap)
                    THEN JInt(size_cap)
                    ELSE Get(query, KeySize)]_vars


(***************************************************************************)
(* A store error on the ESQL call (checked under Spec)                     *)
(***************************************************************************)

\* The store failed the ESQL call with a store error: no answer, or a status
\* of 400 or more other than the 404 of a missing endpoint.
C11_EsqlStoreError ==
    /\ sent # <<>>
    /\ sent[1].kind = "esql"
    /\ store_resp.transport \/ (store_resp.status >= 400 /\ store_resp.status # 404)

\* C11 as claimed: when the generated ESQL pipeline fails with a store error
\* a fallback pipeline is executed once, a second call to the store with
\* another pipeline, and a request that then answers returns the generated
\* object annotated with fallback_used.
C11_FallbackRunsAfterStoreError ==
    C11_EsqlStoreError =>
        /\ Len(sent) = 2
        /\ sent[2].kind = "esql"
        /\ sent[2].body # sent[1].body
        /\ result.status = 200 =>
              HasKey(result.llm_raw,
                     <<"f", "a", "l", "l", "b", "a", "c", "k", "_", "u", "s", "e", "d">>)

\* C11 as amended: when the generated ESQL pipeline fails with a store error
\* no other pipeline is executed: the request ends there with the store's
\* error, StoreQueryError (400) with the store's body or StoreTransportError
\* (502), after the one call to the store, without a summarization call and
\* without a generated object in the response.  A request that answers 200
\* returns the results of the generated query itself, and its generated
\* object carries no fallback_used.
C11_StoreErrorEndsRequest ==
    /\ Len(sent) <= 1
    /\ C11_EsqlStoreError =>
          /\ pc = "done"
          /\ call = "gen"
          /\ result.llm_raw = JNull
          /\ IF store_resp.transport
             THEN result.status = 502 /\ result.kind = "StoreTransportError"
             ELSE /\ result.status = 400
                  /\ result.kind = "StoreQueryError"
                  /\ "es_response" \in result.detail
    /\ result.status = 200 =>
          /\ Len(sent) = 1
          /\ ~store_resp.transport
          /\ store_resp.status < 400
          /\ result.llm_raw = llm
          /\ ~HasKey(llm, <<"f", "a", "l", "l", "b", "a", "c", "k", "_", "u", "s", "e", "d">>)
          /\ sent[1].kind = "esql" => result.query = sent[1].body

\* C11 witness: the store answered 500 to the ESQL call and the request
\* ended with StoreQueryError after that one call.
C11_StoreErrorSurfaced ==
    /\ C11_EsqlStoreError
    /\ store_resp.status = 500
    /\ pc = "done"
    /\ result.kind = "StoreQueryError"
    /\ Len(sent) = 1


(***************************************************************************)
(* _normalize_esql alone, applied once and again to texts joined from at   *)
(* most MaxNormSegs of the segments below.                                 *)
(***************************************************************************)

MaxNormSegs == 3

\* from x
NormSeg1 ==
    <<"f", "r", "o", "m", " ", "x">>

\* FROM and a space
NormSeg2 ==
    <<"F", "R", "O", "M", " ">>

\* From, a line break, y
NormSeg3 ==
    <<"F", "r", "o", "m", "\n", "y">>

\* one space
NormSeg4 ==
    <<" ">>

\* | limit 5
NormSeg5 ==
    <<"|", " ", "l", "i", "m", "i", "t", " ", "5">>

\* STATS c
NormSeg6 ==
    <<"S", "T", "A", "T", "S", " ", "c">>

\* fromage
NormSeg7 ==
    <<"f", "r", "o", "m", "a", "g", "e">>

NormSegments ==
    {NormSeg1, NormSeg2, NormSeg3, NormSeg4, NormSeg5, NormSeg6, NormSeg7}

NormInputs ==
    {Concat(ss) : ss \in UNION {[1..n -> NormSegments] : n \in 0..MaxNormSegs}}

\* A call  _normalize_esql(query) : the first on the model's text, the
\* second on the result of the first.
NormalizeEsql ==
    /\ pc \in {"norm0", "norm1"}
    /\ pc' = IF pc = "norm0" THEN "norm1" ELSE "norm2"
    /\ query' = JStr(normalize_esql(query.s))
    /\ UNCHANGED <<using_llama, size_cap, call, reqs, chat404, agg, combined,
                   tried, llm, summary, mode, sent, hits, sample, store_resp,
                   result>>

InitNormalize ==
    /\ using_llama = FALSE
    /\ size_cap = DefaultSize
    /\ pc = "norm0"
    /\ call = "gen"
    /\ reqs = <<>>
    /\ chat404 = FALSE
    /\ agg = "pending"
    /\ combined = <<>>
    /\ tried = {}
    /\ \E s \in NormInputs :
          /\ query = JStr(s)
          /\ llm = JObj(<< <<KeyMode, JStr(TxtEsql)>>, <<KeyQuery, JStr(s)>> >>)
    /\ summary = NoSummaryYet
    /\ mode = TxtEsql
    /\ sent = <<>>
    /\ hits = 0
    /\ sample = [list |-> FALSE, rows |-> <<>>]
    /\ store_resp = NoAnswer
    /\ result = Pending

NextNormalize == NormalizeEsql

SpecNormalize == InitNormalize /\ [][NextNormalize]_vars

\* The trimmed text t begins with a source-selection stage: the word from in
\* any letter case, whitespace, and a token.
C12_BeginsWithFromStage(t) ==
    /\ Len(t) >= 6
    /\ Lower(SubSeq(t, 1, 4)) = <<"f", "r", "o", "m">>
    /\ t[5] \in WS
    /\ \E k \in 6..Len(t) : t[k] \notin WS

\* What one normalization of the text s is to give.
C12_Normalized(s) ==
    LET t == Strip(s)
    IN  IF C12_BeginsWithFromStage(t) THEN t
        ELSE <<"F", "R", "O", "M", " ">> \o ES_INDEX \o <<" ", "|", " ">> \o t

\* The text the model gave, kept in llm.
C12_Input == Get(llm, KeyQuery).s

BraceObj1 ==
    <<"{", "\"", "a", "\"", ":", "\"", "}", "\"", "}">>

\* {"a":"{"}
BraceObj2 ==
    <<"{", "\"", "a", "\"", ":", "\"", "{", "\"", "}">>

\* {"a":"x\"}"}   (an escaped quote before the brace)
BraceObj3 ==
    <<"{", "\"", "a", "\"", ":", "\"", "x", "\\", "\"", "}", "\"", "}">>

\* {"a":{"b":"}{"}}   (an object in the object)
BraceObj4 ==
    <<"{", "\"", "a", "\"", ":", "{", "\"", "b", "\"", ":", "\"", "}", "{", "\"", "}", "}">>

\* {"a":"\\"}   (an escaped backslash ends the text)
BraceObj5 ==
    <<"{", "\"", "a", "\"", ":", "\"", "\\", "\\", "\"", "}">>

\* {"a":1}
BraceObj6 ==
    <<"{", "\"", "a", "\"", ":", "1", "}">>

BraceObjects ==
    {BraceObj1, BraceObj2, BraceObj3, BraceObj4, BraceObj5, BraceObj6}

\* Nothing;  hi ;  he said "   (a quote left open before the object)
BracePrefixes ==
    {<<>>,
     <<"h", "i", " ">>,
     <<"h", "e", " ", "s", "a", "i", "d", " ", "\"">>}

\* Nothing;  bye;  }  ;  "}  ;  {"z":1}
BraceSuffixes ==
    {<<>>,
     <<" ", "b", "y", "e">>,
     <<"}">>,
     <<"\"", "}">>,
     <<"{", "\"", "z", "\"", ":", "1", "}">>}

BraceTexts ==
    {p \o o \o x : p \in BracePrefixes, o \in BraceObjects, x \in BraceSuffixes}

\* Line 256,  block = _extract_first_json_object(combined) : the block is
\* kept in query, None as null.
ExtractBlock ==
    /\ pc = "block0"
    /\ pc' = "block1"
    /\ LET m == extract_first_json_object(combined)
       IN  query' = IF m.found THEN JStr(m.text) ELSE JNull
    /\ UNCHANGED <<using_llama, size_cap, call, reqs, chat404, agg, combined,
                   tried, llm, summary, mode, sent, hits, sample, store_resp,
                   result>>

InitBrace ==
    /\ using_llama = FALSE
    /\ size_cap = DefaultSize
    /\ pc = "block0"
    /\ call = "gen"
    /\ reqs = <<[url |-> "generate", stream |-> TRUE, answer |-> "ok"]>>
    /\ chat404 = FALSE
    /\ agg = "text"
    /\ combined \in BraceTexts
    /\ tried = {"direct", "fenced"}
    /\ llm = JNull
    /\ summary = NoSummaryYet
    /\ mode = <<>>
    /\ query = JNull
    /\ sent = <<>>
    /\ hits = 0
    /\ sample = [list |-> FALSE, rows |-> <<>>]
    /\ store_resp = NoAnswer
    /\ result = Pending

NextBrace == ExtractBlock

SpecBrace == InitBrace /\ [][NextBrace]_vars

\* C13: for a text that holds a JSON object whose texts hold braces and
\* escaped quotes, the first brace of the text being the one that opens the
\* object, the extraction returns the text from that brace to the brace
\* that closes the object: the object itself, whatever stands before and
\* after it.
C13_OuterObjectExtracted ==
    pc = "block1" =>
        \A p \in BracePrefixes : \A o \in BraceObjects : \A x \in BraceSuffixes :
            combined = p \o o \o x => query = JStr(o)

\* C13 witness: from  hi {"a":"x\"}"}}  the object {"a":"x\"}"} was
\* extracted.
C13_EscapedQuoteObjectExtracted ==
    /\ pc = "block1"
    /\ combined = <<"h", "i", " ">> \o BraceObj3 \o <<"}">>
    /\ query = JStr(BraceObj3)

====
